---- MODULE Spec2Model ----
(***************************************************************************)
(* A model of two programs of the repository:                              *)
(*                                                                         *)
(*   - src/server/aesdsocket.c: the socket server. One thread per accepted *)
(*     connection (connection_thread), one timestamp thread and the main   *)
(*     thread share the backing file /var/tmp/aesdsocketdata, the global   *)
(*     descriptor tempfd, the mutex file_lock and the flag global_abort.   *)
(*     Specification: Spec.                                                *)
(*                                                                         *)
(*   - src/aesd-char-driver/main.c: the character driver. aesd_write       *)
(*     accumulates written bytes in write_append and hands entries to the  *)
(*     circular buffer; aesd_read resolves a file position in it.          *)
(*     Specification: DriverSpec.                                          *)
(*                                                                         *)
(* Bytes are one-character strings. A byte read from memory the program    *)
(* does not own (before the start of a buffer, past its end) is any byte.  *)
(***************************************************************************)
EXTENDS Integers, Sequences, FiniteSets, TLC

\* ------------------------------------------------------------------------
\* Bounds of the model
\* ------------------------------------------------------------------------

\* recv() calls that deliver data, per connection
MaxRecv == 1
\* records the timestamp thread formats
MaxTs == 1
\* system calls that fail with EINTR, over the whole run
MaxEintr == 1
\* how far a negative remaining count of write_wrapper is followed
MaxOverrun == 1

\* ------------------------------------------------------------------------
\* Bytes, threads
\* ------------------------------------------------------------------------

NL == "\n"

\* what memory outside a buffer may hold
AnyByte == {NL, "?"}

Workers == {"w1", "w2"}
TS == "ts"
Threads == Workers \cup {TS}
NoThread == "none"

Rank(w) == IF w = "w1" THEN 1 ELSE 2

\* the bytes a peer sends: each connection has a letter of its own
Letter(w) == IF w = "w1" THEN "a" ELSE "b"

\* what one recv() may deliver (at most recv_temp_size-1 bytes in the program)
RecvChunks(w) ==
    { <<Letter(w)>>, <<NL>>, <<Letter(w), NL>>, <<NL, Letter(w)>> }

\* a zero byte
NUL == "NUL"

\* strchr(recv_temp, '\n') != NULL, recv_temp zeroed before the recv: the
\* search ends at the first zero byte
recv_strchr(recv_temp) ==
    \E i \in 1..Len(recv_temp) :
        /\ recv_temp[i] = NL
        /\ \A j \in 1..(i - 1) : recv_temp[j] # NUL

\* strftime's "timestamp:...\n" record, shortened to two bytes
timestr == <<"t", NL>>

\* int chunk_size = 256
chunk_size == 256

\* int size_step = 128
size_step == 128

Min(a, b) == IF a < b THEN a ELSE b

Range(s) == { s[i] : i \in 1..Len(s) }

\* k bytes of memory starting at buf + off; g stands for memory outside buf
Mem(buf, off, k, g) ==
    [ i \in 1..k |-> IF off + i \in 1..Len(buf) THEN buf[off + i] ELSE g ]

\* ------------------------------------------------------------------------
\* State of the socket server
\* ------------------------------------------------------------------------

VARIABLES
    global_abort,   \* static volatile bool global_abort
    file_lock,      \* pthread_mutex_t file_lock: the thread that locked it
    tempfd,         \* static int tempfd: [open, pos] of its descriptor
    file,           \* content of TEMPFILE
    file_exists,    \* whether TEMPFILE exists
    pc,             \* position of each thread
    recv_buf,       \* connection_thread: recv_buf[0 .. recv_buf_nbytes-1]
    recv_buf_size,  \* connection_thread: what it takes recv_buf's size to be
    recv_cap,       \* bytes of the block recv_buf points to (0: NULL)
    recv_left,      \* recv() calls that will still deliver data
    ww,             \* write_wrapper: [len, off] remaining count and position
    echoed,         \* bytes sent to the peer in the current echo
    pc_main,        \* position of main
    head,           \* TAILQ of the spawned threads
    conn_left,      \* connections that will still arrive
    ts_left,        \* records the timestamp thread will still format
    eintr_left,     \* system calls that will still fail with EINTR
    received,       \* history: the bytes recv() delivered to each worker
    applog,         \* history: the appends that completed, [by, bytes]
    io_error        \* history: open or write (not EINTR) failed on the file

svars == << global_abort, file_lock, tempfd, file, file_exists, pc, recv_buf,
            recv_buf_size, recv_cap, recv_left, ww, echoed, pc_main, head,
            conn_left, ts_left, eintr_left, received, applog, io_error >>

\* ------------------------------------------------------------------------
\* State of the character driver
\* ------------------------------------------------------------------------

VARIABLES
    cbuf,           \* aesd_device.cbuf: the retained entries, oldest first
    write_append,   \* aesd_device.write_append: [buffptr, size]
    live,           \* kernel heap: the addresses that are allocated
    heap,           \* kernel heap: the bytes at each address
    f_pos,          \* filp->f_pos
    writes_left,    \* aesd_write calls still to come
    wr,             \* the last aesd_write: [buf, ret]
    rd,             \* the last aesd_read: [pos, count, ret, uncopied, data]
    appended,       \* history: the entries given to add_entry
    evicted,        \* history: the pointers add_entry returned (not NULL)
    dev_lock,       \* aesd_device.lock: the caller that holds it
    kpc,            \* position of each caller inside the driver
    call            \* the aesd_read or aesd_write each caller is in

dvars == << cbuf, write_append, live, heap, f_pos, writes_left, wr, rd,
            appended, evicted, dev_lock, kpc, call >>

\* the process is running: main has neither returned nor called exit()
Alive == pc_main \in {"accept", "join", "join_ts", "remove"}

\* the process after its setup (listen, the timestamp thread created,
\* TAILQ_INIT), in an environment where conns peers will connect, each recv
\* delivers data recvs times, the timestamp thread gets round to tss records
\* and eintrs system calls are interrupted
ServerInit(conns, recvs, tss, eintrs) ==
    /\ global_abort = FALSE
    /\ file_lock = NoThread
    /\ tempfd = [open |-> FALSE, pos |-> 0]
    /\ file = << >>
    /\ file_exists = FALSE
    /\ pc = [t \in Threads |-> IF t = TS THEN "ts_loop" ELSE "idle"]
    /\ recv_buf = [w \in Workers |-> << >>]
    /\ recv_buf_size = [w \in Workers |-> size_step]
    /\ recv_cap = [w \in Workers |-> 0]
    /\ recv_left = [w \in Workers |-> recvs]
    /\ ww = [t \in Threads |-> [len |-> 0, off |-> 0]]
    /\ echoed = [w \in Workers |-> << >>]
    /\ pc_main = "accept"
    /\ head = << >>
    /\ conn_left = conns
    /\ ts_left = tss
    /\ eintr_left = eintrs
    /\ received = [w \in Workers |-> << >>]
    /\ applog = << >>
    /\ io_error = FALSE

\* ------------------------------------------------------------------------
\* Shared operations
\* ------------------------------------------------------------------------

\* pthread_mutex_lock(&file_lock)
Lock(t) ==
    /\ file_lock = NoThread
    /\ file_lock' = t

\* pthread_mutex_unlock(&file_lock). Unlocking a default mutex the caller
\* does not hold is undefined: the mutex is released or left as it is.
Unlock(t) ==
    IF file_lock = t
    THEN file_lock' = NoThread
    ELSE file_lock' \in {file_lock, NoThread}

\* open(TEMPFILE, O_RDWR | O_CREAT | O_APPEND, 0644), succeeding
OpenOk ==
    /\ tempfd' = [open |-> TRUE, pos |-> 0]
    /\ file_exists' = TRUE

\* close(tempfd): EBADF when tempfd names no open descriptor
Close == tempfd' = [open |-> FALSE, pos |-> 0]

\* write_wrapper, lines 523-524: len -= written; writestr += written
ww_advance(w, written) == [len |-> w.len - written, off |-> w.off + written]

\* write_wrapper(fd, writestr, len): the call
ww_call(len) == [len |-> len, off |-> 0]

\* write_wrapper has returned: its locals are gone
ww_return == [len |-> 0, off |-> 0]

\* write_wrapper(fd, buf, len) run to its return, from the loop state w and
\* with at most e failures by EINTR: the set of its runs, each [out: the
\* bytes fd received, ret: 0 or -1, eintr: the EINTR failures]. In a turn of
\* the loop write() fails (return -1), fails with EINTR, or writes 1 or all
\* of the len bytes (every short write is a row of these). With len < 0 the
\* count write() is given is huge: it sends what lies at writestr and
\* beyond, or fails.
RECURSIVE write_wrapper(_, _, _)
write_wrapper(buf, w, e) ==
    IF w.len = 0 THEN { [out |-> << >>, ret |-> 0, eintr |-> 0] }
    ELSE { [out |-> << >>, ret |-> -1, eintr |-> 0] }
         \cup
         ( IF e > 0 /\ w.len > 0
           THEN { [r EXCEPT !.eintr = @ + 1] :
                    r \in write_wrapper(buf, ww_advance(w, -1), e - 1) }
           ELSE {} )
         \cup
         UNION { UNION { { [r EXCEPT !.out = Mem(buf, w.off, k, g) \o @] :
                             r \in write_wrapper(buf, ww_advance(w, k), e) } :
                         g \in IF w.off >= 0 /\ w.off + k <= Len(buf)
                                THEN {"?"} ELSE AnyByte } :
                 k \in IF w.len > 0 THEN {1, w.len}
                       ELSE IF w.len > -1 - MaxOverrun THEN {1} ELSE {} }

\* ------------------------------------------------------------------------
\* write_wrapper on the backing file, for thread t writing buf
\* ------------------------------------------------------------------------

\* write(tempfd, writestr, len) wrote k bytes: all of them or, a short
\* write, one
WriteFileSome(t, buf) ==
    /\ ww[t].len > 0
    /\ tempfd.open
    /\ \E k \in {1, ww[t].len}, g \in AnyByte :
         /\ (ww[t].off >= 0 /\ ww[t].off + k <= Len(buf)) => g = "?"
         /\ file' = file \o Mem(buf, ww[t].off, k, g)
         /\ ww' = [ww EXCEPT ![t] = ww_advance(ww[t], k)]
    /\ tempfd' = [tempfd EXCEPT !.pos = Len(file')]
    /\ UNCHANGED << eintr_left, io_error >>

\* write() returned -1 with errno EINTR
WriteFileEintr(t) ==
    /\ ww[t].len > 0
    /\ tempfd.open
    /\ eintr_left > 0
    /\ eintr_left' = eintr_left - 1
    /\ ww' = [ww EXCEPT ![t] = ww_advance(ww[t], -1)]
    /\ UNCHANGED << file, tempfd, io_error >>

\* write() returned -1 with another errno: a failure of the medium, or EBADF
\* when tempfd names no open descriptor
WriteFileError(t) ==
    /\ ww[t].len > 0
    /\ io_error' = (io_error \/ tempfd.open)
    /\ ww' = [ww EXCEPT ![t] = ww_return]
    /\ UNCHANGED << file, tempfd, eintr_left >>

\* ------------------------------------------------------------------------
\* connection_thread
\* ------------------------------------------------------------------------

\* the head of the outer loop without recv_buf_nbytes = 0 of line 334
W_Outer_keeps_bytes(w) ==
    /\ Alive /\ pc[w] = "outer"
    /\ pc' = [pc EXCEPT ![w] = IF global_abort THEN "done" ELSE "inner"]
    /\ UNCHANGED << dvars, conn_left, global_abort, file_lock, tempfd, file,
                    file_exists, recv_buf, recv_buf_size, recv_cap, recv_left,
                    received, ww, echoed, pc_main, head, ts_left, eintr_left,
                    applog, io_error >>

\* while(!global_abort) { recv_buf_nbytes = 0; ...  and, after the loop,
\* shutdown(peerfd), close(peerfd), pthread_exit
W_Outer(w) ==
    /\ Alive /\ pc[w] = "outer"
    /\ IF global_abort
       THEN /\ pc' = [pc EXCEPT ![w] = "done"]
            /\ recv_buf' = [recv_buf EXCEPT ![w] = << >>]
       ELSE /\ pc' = [pc EXCEPT ![w] = "inner"]
            /\ recv_buf' = [recv_buf EXCEPT ![w] = << >>]
    /\ UNCHANGED << dvars, conn_left, global_abort, file_lock, tempfd, file,
                    file_exists, recv_buf_size, recv_cap, recv_left, received,
                    ww, echoed, pc_main, head, ts_left, eintr_left, applog,
                    io_error >>

\* the inner while(!global_abort): with the flag set the loop ends and the
\* thread goes on to commit what it has; otherwise it clears recv_temp and
\* calls recv(peerfd, recv_temp, recv_temp_size-1, 0), which blocks
W_Inner(w) ==
    /\ Alive /\ pc[w] = "inner"
    /\ pc' = [pc EXCEPT ![w] = IF global_abort THEN "lock" ELSE "recv"]
    /\ UNCHANGED << dvars, conn_left, global_abort, file_lock, tempfd, file,
                    file_exists, recv_buf, recv_buf_size, recv_cap, recv_left,
                    received, ww, echoed, pc_main, head, ts_left, eintr_left,
                    applog, io_error >>

\* recv_buf_nbytes + ret > recv_buf_size, the test that grows the buffer
NeedsGrowth(nbytes, ret, size) == nbytes + ret > size

\* the sizes realloc(recv_buf, recv_buf_size + size_step) can leave recv_buf
\* with: the size asked for, or none (NULL, which the code does not test)
realloc(size) == {size, 0}

\* recv() returned the ret > 0 bytes recv_temp: grow recv_buf by one step
\* when they do not fit, copy them, and leave the loop when strchr finds a
\* newline in the chunk.  recv_buf_size grows whether realloc succeeded or
\* not; a memcpy past the end of the block (or through NULL) is a fault that
\* ends the process
W_RecvChunk(w, recv_temp) ==
    /\ Alive /\ pc[w] = "recv"
    /\ recv_left[w] > 0
    /\ LET nbytes == Len(recv_buf[w])
           ret    == Len(recv_temp)
           grow   == NeedsGrowth(nbytes, ret, recv_buf_size[w])
       IN  /\ recv_buf_size' =
                [recv_buf_size EXCEPT ![w] =
                   IF grow THEN @ + size_step ELSE @]
           /\ \E cap \in IF grow THEN realloc(recv_buf_size[w] + size_step)
                                  ELSE {recv_cap[w]} :
                /\ recv_cap' = [recv_cap EXCEPT ![w] = cap]
                /\ IF nbytes + ret <= cap
                   THEN /\ recv_buf' = [recv_buf EXCEPT ![w] = @ \o recv_temp]
                        /\ pc' = [pc EXCEPT ![w] =
                                    IF recv_strchr(recv_temp) THEN "lock"
                                                              ELSE "inner"]
                        /\ UNCHANGED pc_main
                   ELSE /\ pc_main' = "exited"
                        /\ UNCHANGED << recv_buf, pc >>
    /\ recv_left' = [recv_left EXCEPT ![w] = @ - 1]
    /\ received' = [received EXCEPT ![w] = @ \o recv_temp]
    /\ UNCHANGED << dvars, conn_left, global_abort, file_lock, tempfd, file,
                    file_exists, ww, echoed, head, ts_left, eintr_left,
                    applog, io_error >>

\* recv() from a peer that sends text
W_Recv(w) == \E recv_temp \in RecvChunks(w) : W_RecvChunk(w, recv_temp)

\* recv() returned -1 with errno EINTR: the loop goes round
W_RecvEintr(w) ==
    /\ Alive /\ pc[w] = "recv"
    /\ pc' = [pc EXCEPT ![w] = "inner"]
    /\ UNCHANGED << dvars, conn_left, global_abort, file_lock, tempfd, file,
                    file_exists, recv_buf, recv_buf_size, recv_cap, recv_left,
                    received, ww, echoed, pc_main, head, ts_left, eintr_left,
                    applog, io_error >>

\* recv() returned -1 (not EINTR) or 0 (peer shutdown): goto handle_errors
W_RecvFail(w) ==
    /\ Alive /\ pc[w] = "recv"
    /\ pc' = [pc EXCEPT ![w] = "handle_errors"]
    /\ UNCHANGED << dvars, conn_left, global_abort, file_lock, tempfd, file,
                    file_exists, recv_buf, recv_buf_size, recv_cap, recv_left,
                    received, ww, echoed, pc_main, head, ts_left, eintr_left,
                    applog, io_error >>

\* pthread_mutex_lock(&file_lock); tempfd = open(TEMPFILE, ...); on -1 goto
\* handle_errors; else enter write_wrapper(tempfd, recv_buf, recv_buf_nbytes)
W_LockOpen(w) ==
    /\ Alive /\ pc[w] = "lock"
    /\ Lock(w)
    /\ \/ /\ OpenOk
          /\ ww' = [ww EXCEPT ![w] = ww_call(Len(recv_buf[w]))]
          /\ pc' = [pc EXCEPT ![w] = "write"]
          /\ UNCHANGED io_error
       \/ /\ tempfd' = [open |-> FALSE, pos |-> 0]
          /\ io_error' = TRUE
          /\ pc' = [pc EXCEPT ![w] = "handle_errors"]
          /\ UNCHANGED << ww, file_exists >>
    /\ UNCHANGED << dvars, conn_left, global_abort, file, recv_buf,
                    recv_buf_size, recv_cap, recv_left, received, echoed,
                    pc_main, head, ts_left, eintr_left, applog >>

\* one turn of write_wrapper's loop on tempfd; when it returns 0 the append
\* is complete and lseek(tempfd, 0, SEEK_SET) follows
W_Write(w) ==
    /\ Alive /\ pc[w] = "write"
    /\ \/ /\ ww[w].len = 0
          /\ applog' = Append(applog, [by |-> w, bytes |-> recv_buf[w]])
          /\ tempfd' = [tempfd EXCEPT !.pos = IF tempfd.open THEN 0 ELSE @]
          /\ ww' = [ww EXCEPT ![w] = ww_return]
          /\ pc' = [pc EXCEPT ![w] = "echo"]
          /\ UNCHANGED << file, echoed, eintr_left, io_error >>
       \/ /\ WriteFileSome(w, recv_buf[w])
          /\ UNCHANGED << pc, applog, echoed >>
       \/ /\ WriteFileEintr(w)
          /\ UNCHANGED << pc, applog, echoed >>
       \/ /\ WriteFileError(w)
          /\ pc' = [pc EXCEPT ![w] = "handle_errors"]
          /\ UNCHANGED << applog, echoed >>
    /\ UNCHANGED << dvars, conn_left, global_abort, file_lock, file_exists,
                    recv_buf, recv_buf_size, recv_cap, recv_left, received,
                    pc_main, head, ts_left >>

\* what read(tempfd, chunk, chunk_size) returns when it succeeds: all that
\* is there, up to chunk_size bytes
ReadCounts ==
    LET avail == Min(chunk_size, Len(file) - tempfd.pos)
    IN  IF avail <= 0 THEN {0} ELSE {avail}

\* one turn of the echo loop: while (!global_abort) { nread = read(...); ...
\* write_wrapper(peerfd, chunk, nread) is called also when read() failed
\* with EINTR, with nread = -1. The call touches only the peer's socket and
\* is taken as one step: r is one of its runs.
W_Echo(w) ==
    /\ Alive /\ pc[w] = "echo"
    /\ \/ /\ global_abort
          /\ pc' = [pc EXCEPT ![w] = "close"]
          /\ UNCHANGED << tempfd, echoed, eintr_left >>
       \/ /\ ~global_abort
          /\ tempfd.open
          /\ \E nread \in ReadCounts :
               IF nread = 0
               THEN /\ pc' = [pc EXCEPT ![w] = "close"]
                    /\ UNCHANGED << tempfd, echoed, eintr_left >>
               ELSE LET chunk == SubSeq(file, tempfd.pos + 1,
                                            tempfd.pos + nread)
                    IN  \E r \in write_wrapper(chunk, ww_call(nread),
                                               eintr_left) :
                          /\ tempfd' = [tempfd EXCEPT !.pos = @ + nread]
                          /\ echoed' = [echoed EXCEPT ![w] = @ \o r.out]
                          /\ eintr_left' = eintr_left - r.eintr
                          /\ pc' = [pc EXCEPT ![w] =
                                      IF r.ret = 0 THEN "echo"
                                                   ELSE "handle_errors"]
       \/ /\ ~global_abort
          /\ tempfd.open
          /\ eintr_left > 0
          /\ \E r \in write_wrapper(<< >>, ww_call(-1),
                                     eintr_left - 1) :
               /\ echoed' = [echoed EXCEPT ![w] = @ \o r.out]
               /\ eintr_left' = eintr_left - 1 - r.eintr
               /\ pc' = [pc EXCEPT ![w] =
                           IF r.ret = 0 THEN "echo" ELSE "handle_errors"]
          /\ UNCHANGED tempfd
       \/ /\ ~global_abort
          /\ pc' = [pc EXCEPT ![w] = "handle_errors"]
          /\ UNCHANGED << tempfd, echoed, eintr_left >>
    /\ UNCHANGED << dvars, conn_left, global_abort, file_lock, file,
                    file_exists, recv_buf, recv_buf_size, recv_cap, recv_left,
                    received, ww, pc_main, head, ts_left, applog, io_error >>

\* close(tempfd); pthread_mutex_unlock(&file_lock) after the echo loop
W_CloseUnlock(w) ==
    /\ Alive /\ pc[w] = "close"
    /\ Close
    /\ Unlock(w)
    /\ echoed' = [echoed EXCEPT ![w] = << >>]
    /\ pc' = [pc EXCEPT ![w] = "outer"]
    /\ UNCHANGED << dvars, conn_left, global_abort, file, file_exists,
                    recv_buf, recv_buf_size, recv_cap, recv_left, received,
                    ww, pc_main, head, ts_left, eintr_left, applog, io_error
                    >>

\* handle_errors without its pthread_mutex_unlock
W_HandleErrors_keeps_lock(w) ==
    /\ Alive /\ pc[w] = "handle_errors"
    /\ Close
    /\ UNCHANGED file_lock
    /\ recv_buf' = [recv_buf EXCEPT ![w] = << >>]
    /\ echoed' = [echoed EXCEPT ![w] = << >>]
    /\ pc' = [pc EXCEPT ![w] = "done"]
    /\ UNCHANGED << dvars, conn_left, global_abort, file, file_exists,
                    recv_buf_size, recv_cap, recv_left, received, ww, pc_main,
                    head, ts_left, eintr_left, applog, io_error >>

\* handle_errors: free(recv_buf); close(tempfd);
\* pthread_mutex_unlock(&file_lock); shutdown(peerfd); close(peerfd);
\* pthread_exit
W_HandleErrors(w) ==
    /\ Alive /\ pc[w] = "handle_errors"
    /\ Close
    /\ Unlock(w)
    /\ recv_buf' = [recv_buf EXCEPT ![w] = << >>]
    /\ echoed' = [echoed EXCEPT ![w] = << >>]
    /\ pc' = [pc EXCEPT ![w] = "done"]
    /\ UNCHANGED << dvars, conn_left, global_abort, file, file_exists,
                    recv_buf_size, recv_cap, recv_left, received, ww, pc_main,
                    head, ts_left, eintr_left, applog, io_error >>

\* ------------------------------------------------------------------------
\* timestamp_thread
\* ------------------------------------------------------------------------

\* while(!global_abort) { clock_gettime; localtime; strftime ...
\* (localtime or strftime failing ends the thread)
T_Loop ==
    /\ Alive /\ pc[TS] = "ts_loop"
    /\ \/ /\ global_abort
          /\ pc' = [pc EXCEPT ![TS] = "done"]
          /\ UNCHANGED ts_left
       \/ /\ ~global_abort
          /\ ts_left > 0
          /\ ts_left' = ts_left - 1
          /\ pc' = [pc EXCEPT ![TS] = "ts_lock"]
       \/ /\ ~global_abort
          /\ pc' = [pc EXCEPT ![TS] = "done"]
          /\ UNCHANGED ts_left
    /\ UNCHANGED << dvars, conn_left, global_abort, file_lock, tempfd, file,
                    file_exists, recv_buf, recv_buf_size, recv_cap, recv_left,
                    received, ww, echoed, pc_main, head, eintr_left, applog,
                    io_error >>

\* pthread_mutex_lock(&file_lock); tempfd = open(...); on -1:
\* pthread_mutex_unlock, break; else enter
\* write_wrapper(tempfd, timestr, strlen(timestr))
T_LockOpen ==
    /\ Alive /\ pc[TS] = "ts_lock"
    /\ \/ /\ Lock(TS)
          /\ OpenOk
          /\ ww' = [ww EXCEPT ![TS] = ww_call(Len(timestr))]
          /\ pc' = [pc EXCEPT ![TS] = "ts_write"]
          /\ UNCHANGED io_error
       \/ /\ file_lock = NoThread
          /\ tempfd' = [open |-> FALSE, pos |-> 0]
          /\ io_error' = TRUE
          /\ pc' = [pc EXCEPT ![TS] = "done"]
          /\ UNCHANGED << ww, file_exists, file_lock >>
    /\ UNCHANGED << dvars, conn_left, global_abort, file, recv_buf,
                    recv_buf_size, recv_cap, recv_left, received, echoed,
                    pc_main, head, ts_left, eintr_left, applog >>

\* one turn of write_wrapper's loop on tempfd; on -1: close(tempfd),
\* pthread_mutex_unlock, break
T_Write ==
    /\ Alive /\ pc[TS] = "ts_write"
    /\ \/ /\ ww[TS].len = 0
          /\ applog' = Append(applog, [by |-> TS, bytes |-> timestr])
          /\ pc' = [pc EXCEPT ![TS] = "ts_close"]
          /\ ww' = [ww EXCEPT ![TS] = ww_return]
          /\ UNCHANGED << file, tempfd, eintr_left, io_error, file_lock >>
       \/ /\ WriteFileSome(TS, timestr)
          /\ UNCHANGED << pc, applog, file_lock >>
       \/ /\ WriteFileEintr(TS)
          /\ UNCHANGED << pc, applog, file_lock >>
       \/ /\ ww[TS].len > 0
          /\ io_error' = (io_error \/ tempfd.open)
          /\ Close
          /\ Unlock(TS)
          /\ ww' = [ww EXCEPT ![TS] = ww_return]
          /\ pc' = [pc EXCEPT ![TS] = "done"]
          /\ UNCHANGED << file, eintr_left, applog >>
    /\ UNCHANGED << dvars, conn_left, global_abort, file_exists, recv_buf,
                    recv_buf_size, recv_cap, recv_left, received, echoed,
                    pc_main, head, ts_left >>

\* close(tempfd); pthread_mutex_unlock(&file_lock);
\* start_time.tv_sec += 10
T_CloseUnlock ==
    /\ Alive /\ pc[TS] = "ts_close"
    /\ Close
    /\ Unlock(TS)
    /\ pc' = [pc EXCEPT ![TS] = "ts_sleep"]
    /\ UNCHANGED << dvars, conn_left, global_abort, file, file_exists,
                    recv_buf, recv_buf_size, recv_cap, recv_left, received,
                    ww, echoed, pc_main, head, ts_left, eintr_left, applog,
                    io_error >>

\* clock_nanosleep(CLOCK_MONOTONIC, TIMER_ABSTIME, &start_time, NULL).
\* It returns 0 after the 10 seconds. A signal handler run by this thread
\* (which has then set the flag) makes it return EINTR; it reports the error
\* as its result and leaves errno as it was, so `errno == EINTR` tests what
\* an earlier call left there: the loop is left or goes round.
T_Sleep ==
    /\ Alive /\ pc[TS] = "ts_sleep"
    /\ \/ pc' = [pc EXCEPT ![TS] = "ts_loop"]
       \/ /\ global_abort
          /\ pc' = [pc EXCEPT ![TS] = "done"]
    /\ UNCHANGED << dvars, conn_left, global_abort, file_lock, tempfd, file,
                    file_exists, recv_buf, recv_buf_size, recv_cap, recv_left,
                    received, ww, echoed, pc_main, head, ts_left, eintr_left,
                    applog, io_error >>

\* ------------------------------------------------------------------------
\* main and the signal handler
\* ------------------------------------------------------------------------

\* signal_handler: global_abort = true
Signal ==
    /\ Alive
    /\ ~global_abort
    /\ global_abort' = TRUE
    /\ UNCHANGED << dvars, conn_left, file_lock, tempfd, file, file_exists,
                    pc, recv_buf, recv_buf_size, recv_cap, recv_left,
                    received, ww, echoed, pc_main, head, ts_left, eintr_left,
                    applog, io_error >>

\* poll() reports a connection and accept() returns it: w is the thread that
\* will serve it (the threads are taken in order)
NextPeer(w) ==
    /\ conn_left > 0
    /\ pc[w] = "idle"
    /\ \A v \in Workers : pc[v] = "idle" => Rank(w) <= Rank(v)

\* the sizes calloc(size_step, sizeof(char)) can give recv_buf: size_step, or
\* none (NULL, which the code does not test)
calloc(size) == {size, 0}

\* the accept loop, a connection accepted: malloc the node and the
\* parameters, pthread_create, TAILQ_INSERT_TAIL; the new thread allocates
\* its receive buffer before its first loop (locals only, so the step is
\* taken with the creation)
M_Accept(w) ==
    /\ pc_main = "accept"
    /\ ~global_abort
    /\ NextPeer(w)
    /\ conn_left' = conn_left - 1
    /\ pc' = [pc EXCEPT ![w] = "outer"]
    /\ head' = Append(head, w)
    /\ \E cap \in calloc(size_step) :
         recv_cap' = [recv_cap EXCEPT ![w] = cap]
    /\ UNCHANGED << dvars, global_abort, file_lock, tempfd, file, file_exists,
                    recv_buf, recv_buf_size, recv_left, received, ww, echoed,
                    pc_main, ts_left, eintr_left, applog, io_error >>

\* pthread_create failed: shutdown and close the connection, free, continue
M_SpawnFail ==
    /\ pc_main = "accept"
    /\ ~global_abort
    /\ conn_left > 0
    /\ conn_left' = conn_left - 1
    /\ UNCHANGED << dvars, global_abort, file_lock, tempfd, file, file_exists,
                    pc, recv_buf, recv_buf_size, recv_cap, recv_left,
                    received, ww, echoed, pc_main, head, ts_left, eintr_left,
                    applog, io_error >>

\* malloc of the node or of the parameters failed: exit(EXIT_FAILURE)
M_MallocFail ==
    /\ pc_main = "accept"
    /\ ~global_abort
    /\ conn_left > 0
    /\ pc_main' = "exited"
    /\ UNCHANGED << dvars, conn_left, global_abort, file_lock, tempfd, file,
                    file_exists, pc, recv_buf, recv_buf_size, recv_cap,
                    recv_left, received, ww, echoed, head, ts_left,
                    eintr_left, applog, io_error >>

\* while(!global_abort) ends; shutdown(sockfd); close(sockfd)
M_LoopExit ==
    /\ pc_main = "accept"
    /\ global_abort
    /\ pc_main' = "join"
    /\ UNCHANGED << dvars, conn_left, global_abort, file_lock, tempfd, file,
                    file_exists, pc, recv_buf, recv_buf_size, recv_cap,
                    recv_left, received, ww, echoed, head, ts_left,
                    eintr_left, applog, io_error >>

\* the join loop with a pthread_join that does not wait for the thread
M_Join_no_wait ==
    /\ pc_main = "join"
    /\ IF head = << >>
       THEN /\ pc_main' = "join_ts"
            /\ UNCHANGED head
       ELSE /\ head' = Tail(head)
            /\ UNCHANGED pc_main
    /\ UNCHANGED << dvars, conn_left, global_abort, file_lock, tempfd, file,
                    file_exists, pc, recv_buf, recv_buf_size, recv_cap,
                    recv_left, received, ww, echoed, ts_left, eintr_left,
                    applog, io_error >>

\* while (!TAILQ_EMPTY(&head)) { pthread_join(TAILQ_FIRST); TAILQ_REMOVE }
M_Join ==
    /\ pc_main = "join"
    /\ IF head = << >>
       THEN /\ pc_main' = "join_ts"
            /\ UNCHANGED head
       ELSE /\ pc[Head(head)] = "done"
            /\ head' = Tail(head)
            /\ UNCHANGED pc_main
    /\ UNCHANGED << dvars, conn_left, global_abort, file_lock, tempfd, file,
                    file_exists, pc, recv_buf, recv_buf_size, recv_cap,
                    recv_left, received, ww, echoed, ts_left, eintr_left,
                    applog, io_error >>

\* pthread_join(tsthread, &retval)
M_JoinTs ==
    /\ pc_main = "join_ts"
    /\ pc[TS] = "done"
    /\ pc_main' = "remove"
    /\ UNCHANGED << dvars, conn_left, global_abort, file_lock, tempfd, file,
                    file_exists, pc, recv_buf, recv_buf_size, recv_cap,
                    recv_left, received, ww, echoed, head, ts_left,
                    eintr_left, applog, io_error >>

\* if (access(TEMPFILE, F_OK) == 0) remove(TEMPFILE); return 0
M_Remove ==
    /\ pc_main = "remove"
    /\ file_exists' = FALSE
    /\ file' = << >>
    /\ pc_main' = "done"
    /\ UNCHANGED << dvars, conn_left, global_abort, file_lock, tempfd, pc,
                    recv_buf, recv_buf_size, recv_cap, recv_left, received,
                    ww, echoed, head, ts_left, eintr_left, applog, io_error >>

ServerNext ==
    \/ \E w \in Workers : W_Outer(w)
    \/ \E w \in Workers : W_Inner(w)
    \/ \E w \in Workers : W_Recv(w)
    \/ \E w \in Workers : W_RecvEintr(w)
    \/ \E w \in Workers : W_RecvFail(w)
    \/ \E w \in Workers : W_LockOpen(w)
    \/ \E w \in Workers : W_Write(w)
    \/ \E w \in Workers : W_Echo(w)
    \/ \E w \in Workers : W_CloseUnlock(w)
    \/ \E w \in Workers : W_HandleErrors(w)
    \/ T_Loop
    \/ T_LockOpen
    \/ T_Write
    \/ T_CloseUnlock
    \/ T_Sleep
    \/ Signal
    \/ \E w \in Workers : M_Accept(w)
    \/ M_SpawnFail
    \/ M_MallocFail
    \/ M_LoopExit
    \/ M_Join
    \/ M_JoinTs
    \/ M_Remove

\* ------------------------------------------------------------------------
\* The character driver: bounds and memory
\* ------------------------------------------------------------------------

\* entries the circular buffer holds
RingCapacity == 2
\* aesd_write calls in a run
MaxWrites == 3
\* addresses kmalloc and krealloc may return
NumPtr == 2
\* largest count given to aesd_read
MaxCount == 2

NULL == 0
Ptrs == 1..NumPtr

EFAULT == 14
ENOMEM == 12
ERESTARTSYS == 512

\* the user buffers given to aesd_write (count is their length)
WriteBufs == { << >>, <<"a">>, <<"a", "b">>, <<"b", NL>> }

NoCall == [called |-> FALSE]

\* the processes that call into the driver
Callers == {"p1", "p2"}
NoCaller == "nobody"

\* the device after aesd_init_module (memset of aesd_device to 0), with
\* writes calls of aesd_write to come
DriverStart(writes) ==
    /\ cbuf = << >>
    /\ write_append = [buffptr |-> NULL, size |-> 0]
    /\ live = {}
    /\ heap = [p \in Ptrs |-> << >>]
    /\ f_pos = 0
    /\ writes_left = writes
    /\ wr = NoCall
    /\ rd = NoCall
    /\ appended = << >>
    /\ evicted = << >>
    /\ dev_lock = NoCaller
    /\ kpc = [p \in Callers |-> "user"]
    /\ call = [p \in Callers |-> NoCall]

\* kmalloc(n, GFP_KERNEL): NULL, or an address that was not allocated
kmalloc == {NULL} \cup (Ptrs \ live)

\* kfree(p) on the set l of allocated addresses: kfree(NULL) does nothing
kfree(l, p) == IF p = NULL THEN l ELSE l \ {p}

\* krealloc(p, n, GFP_KERNEL) of a buffer holding size bytes: the set of
\* its outcomes [ptr, live, heap]. It fails (NULL, p stays allocated), grows
\* the buffer in place, or moves it (the bytes copied, p freed);
\* krealloc(NULL, n) is kmalloc(n), whose memory holds any bytes.
krealloc(p, size) ==
    { [ptr |-> NULL, live |-> live, heap |-> heap] }
    \cup
    ( IF p = NULL
      THEN { [ptr |-> q, live |-> live \cup {q},
              heap |-> [heap EXCEPT ![q] = [i \in 1..size |-> g]]] :
                q \in Ptrs \ live, g \in AnyByte }
      ELSE { [ptr |-> p, live |-> live, heap |-> heap] }
           \cup
           { [ptr |-> q, live |-> (live \ {p}) \cup {q},
              heap |-> [heap EXCEPT ![q] = heap[p]]] : q \in Ptrs \ live } )

\* the byte at p + i - 1; g stands for memory that is not allocated or lies
\* past what was stored there
ByteAt(p, i, g) ==
    IF p \in live /\ i \in 1..Len(heap[p]) THEN heap[p][i] ELSE g

\* what the n bytes at p may show of memory the driver does not own
Unowned(p, n) ==
    IF p \in live /\ n <= Len(heap[p]) THEN {"?"} ELSE AnyByte

\* ------------------------------------------------------------------------
\* The circular buffer (aesd-circular-buffer.c is not part of the sources:
\* these two follow its contract)
\* ------------------------------------------------------------------------

\* an add_entry that, when the buffer is full, turns the new entry away
add_entry_keeps_oldest(buffer, add_entry) ==
    IF Len(buffer) = RingCapacity
    THEN [cbuf |-> buffer, overwritten |-> add_entry.buffptr]
    ELSE [cbuf |-> Append(buffer, add_entry), overwritten |-> NULL]

\* aesd_circular_buffer_add_entry(buffer, add_entry): the entry is copied to
\* the tail; when the buffer was full the oldest entry leaves it and its
\* buffptr is returned, otherwise NULL
aesd_circular_buffer_add_entry(buffer, add_entry) ==
    IF Len(buffer) = RingCapacity
    THEN [cbuf |-> Append(Tail(buffer), add_entry),
          overwritten |-> Head(buffer).buffptr]
    ELSE [cbuf |-> Append(buffer, add_entry), overwritten |-> NULL]

\* a walk that takes the byte after an entry's last as part of the entry
RECURSIVE find_from_inclusive(_, _, _)
find_from_inclusive(buffer, i, char_offset) ==
    IF i > Len(buffer) THEN [found |-> FALSE]
    ELSE IF char_offset <= buffer[i].size
         THEN [found |-> TRUE, index |-> i, entry_offset |-> char_offset]
         ELSE find_from_inclusive(buffer, i + 1, char_offset - buffer[i].size)

\* the walk of find_entry_offset_for_fpos from entry i on, char_offset
\* being counted from the start of entry i
RECURSIVE find_from(_, _, _)
find_from(buffer, i, char_offset) ==
    IF i > Len(buffer) THEN [found |-> FALSE]
    ELSE IF char_offset < buffer[i].size
         THEN [found |-> TRUE, index |-> i, entry_offset |-> char_offset]
         ELSE find_from(buffer, i + 1, char_offset - buffer[i].size)

\* aesd_circular_buffer_find_entry_offset_for_fpos(buffer, char_offset,
\* &entry_offset): the entry that holds the byte at char_offset of the
\* concatenation of the entries, oldest first, and the offset in it
aesd_circular_buffer_find_entry_offset_for_fpos(buffer, char_offset) ==
    find_from(buffer, 1, char_offset)

\* ------------------------------------------------------------------------
\* aesd_write, aesd_read
\* ------------------------------------------------------------------------

\* strchr(buf, '\n') on the user's memory. The scan does not end after the
\* count bytes of buf: tail says that the bytes that follow them hold a
\* newline before the first NUL.
strchr(buf, tail) == NL \in Range(buf) \/ tail

\* lines 156-178: write_append.buffptr = kmalloc(count) when
\* write_append.size is 0, else krealloc(write_append.buffptr, size + count):
\* the set of outcomes [ptr, live, heap]
Allocate ==
    IF write_append.size = 0
    THEN { [ptr |-> q,
            live |-> IF q = NULL THEN live ELSE live \cup {q},
            heap |-> IF q = NULL THEN heap ELSE [heap EXCEPT ![q] = << >>]] :
              q \in kmalloc }
    ELSE krealloc(write_append.buffptr, write_append.size)

\* aesd_write returns ret and leaves the device as it is
WriteReturns(buf, ret) ==
    /\ wr' = [called |-> TRUE, buf |-> buf, ret |-> ret]
    /\ UNCHANGED << cbuf, write_append, live, heap, appended, evicted >>

\* lines 188-205, after the allocation a: copy_from_user left uncopied bytes
\* uncopied; the entry goes to the circular buffer when strchr finds no
\* newline; kfree is called when add_entry returned NULL
WriteCopy(buf, a, uncopied, tail) ==
    LET retval == Len(buf) - uncopied
        entry == [buffptr |-> a.ptr, size |-> write_append.size + retval]
        r == aesd_circular_buffer_add_entry(cbuf, entry)
    IN  /\ write_append' = entry
        /\ heap' = [a.heap EXCEPT ![a.ptr] = @ \o SubSeq(buf, 1, retval)]
        /\ wr' = [called |-> TRUE, buf |-> buf, ret |-> retval]
        /\ IF ~strchr(buf, tail)
           THEN /\ cbuf' = r.cbuf
                /\ live' = IF r.overwritten = NULL
                           THEN kfree(a.live, r.overwritten)
                           ELSE a.live
                /\ appended' = Append(appended, entry)
                /\ evicted' = IF r.overwritten = NULL
                              THEN evicted
                              ELSE Append(evicted, r.overwritten)
           ELSE /\ live' = a.live
                /\ UNCHANGED << cbuf, appended, evicted >>

\* aesd_write between mutex_lock_interruptible and mutex_unlock, lines
\* 156-205
write_locked(buf) ==
    \E a \in Allocate :
      IF a.ptr = NULL
      THEN \* kmalloc or krealloc failed: retval is still -ENOMEM
           /\ write_append' = [write_append EXCEPT !.buffptr = NULL]
           /\ wr' = [called |-> TRUE, buf |-> buf, ret |-> -ENOMEM]
           /\ UNCHANGED << cbuf, live, heap, appended, evicted >>
      ELSE \* access_ok(VERIFY_READ, buf, count) fails
           \/ /\ write_append' = [write_append EXCEPT !.buffptr = a.ptr]
              /\ live' = a.live
              /\ heap' = a.heap
              /\ wr' = [called |-> TRUE, buf |-> buf, ret |-> -EFAULT]
              /\ UNCHANGED << cbuf, appended, evicted >>
           \/ \E uncopied \in 0..Len(buf) :
                \E tail \in IF NL \in Range(buf) THEN {FALSE}
                                                 ELSE BOOLEAN :
                  WriteCopy(buf, a, uncopied, tail)

\* ssize_t aesd_write(filp, buf, count, f_pos), buf holding count bytes,
\* with no other caller in the driver
aesd_write(buf) ==
    /\ writes_left > 0
    /\ writes_left' = writes_left - 1
    /\ rd' = NoCall
    /\ \/ /\ Len(buf) = 0
          /\ WriteReturns(buf, 0)
       \* mutex_lock_interruptible was interrupted
       \/ /\ Len(buf) > 0
          /\ WriteReturns(buf, -ERESTARTSYS)
       \/ /\ Len(buf) > 0
          /\ write_locked(buf)
    /\ UNCHANGED << f_pos, dev_lock, kpc, call, svars >>

\* aesd_read returns ret, data being what it stored in the user's buffer
\* and uncopied what copy_to_user left out
ReadReturns(count, ret, uncopied, data) ==
    rd' = [called |-> TRUE, pos |-> f_pos, count |-> count, ret |-> ret,
           uncopied |-> uncopied, data |-> data]

\* read_size without the cap of lines 109-112
read_size_uncapped(e, read_offset, count) == e.size - read_offset

\* lines 108-112: read_size = read_entry->size - read_offset;
\* if (read_size > count) read_size = count
read_size(e, read_offset, count) ==
    IF e.size - read_offset > count THEN count ELSE e.size - read_offset

\* aesd_read between mutex_lock_interruptible and mutex_unlock, lines
\* 97-124. Line 124 names fpos, which is not declared: it is read as
\* *f_pos += retval.
read_locked(count) ==
    LET read_entry ==
          aesd_circular_buffer_find_entry_offset_for_fpos(cbuf, f_pos)
    IN  IF ~read_entry.found
        THEN /\ ReadReturns(count, 0, 0, << >>)
             /\ UNCHANGED f_pos
        ELSE LET e == cbuf[read_entry.index]
                 read_offset == read_entry.entry_offset
                 size == read_size(e, read_offset, count)
             IN  \* access_ok(VERIFY_WRITE, buf, count) fails
                 \/ /\ ReadReturns(count, -EFAULT, 0, << >>)
                    /\ UNCHANGED f_pos
                 \/ \E uncopied_count \in 0..size :
                      LET retval == size - uncopied_count
                      IN  \E g \in Unowned(e.buffptr, read_offset + retval) :
                            /\ ReadReturns(count, retval, uncopied_count,
                                 [i \in 1..retval |->
                                    ByteAt(e.buffptr, read_offset + i, g)])
                            /\ f_pos' = f_pos + retval

\* ssize_t aesd_read(filp, buf, count, f_pos), with no other caller in the
\* driver
aesd_read(count) ==
    /\ wr' = NoCall
    /\ \/ /\ count = 0
          /\ ReadReturns(count, 0, 0, << >>)
          /\ UNCHANGED f_pos
       \* mutex_lock_interruptible was interrupted
       \/ /\ count > 0
          /\ ReadReturns(count, -ERESTARTSYS, 0, << >>)
          /\ UNCHANGED f_pos
       \/ /\ count > 0
          /\ read_locked(count)
    /\ UNCHANGED << cbuf, write_append, live, heap, writes_left, appended,
                    evicted, dev_lock, kpc, call, svars >>

\* ------------------------------------------------------------------------
\* aesd_read and aesd_write called by several processes at once
\* ------------------------------------------------------------------------

\* what of the driver's state a step of a caller leaves alone besides the
\* device's data
CallerFrame == UNCHANGED << svars >>

\* a process calls write(fd, buf, count): count == 0 returns 0 at once
\* (line 143), otherwise the caller goes on to the lock
D_EnterWrite(p, buf) ==
    /\ kpc[p] = "user"
    /\ writes_left > 0
    /\ writes_left' = writes_left - 1
    /\ IF Len(buf) = 0
       THEN /\ wr' = [called |-> TRUE, buf |-> buf, ret |-> 0]
            /\ rd' = NoCall
            /\ UNCHANGED << kpc, call >>
       ELSE /\ kpc' = [kpc EXCEPT ![p] = "lock"]
            /\ call' = [call EXCEPT ![p] =
                          [called |-> TRUE, op |-> "write", buf |-> buf,
                           count |-> Len(buf)]]
            /\ UNCHANGED << wr, rd >>
    /\ UNCHANGED << cbuf, write_append, live, heap, f_pos, appended, evicted,
                    dev_lock >>
    /\ CallerFrame

\* a process calls read(fd, buf, count): count == 0 returns 0 at once (line
\* 86)
D_EnterRead(p, count) ==
    /\ kpc[p] = "user"
    /\ IF count = 0
       THEN /\ ReadReturns(count, 0, 0, << >>)
            /\ wr' = NoCall
            /\ UNCHANGED << kpc, call >>
       ELSE /\ kpc' = [kpc EXCEPT ![p] = "lock"]
            /\ call' = [call EXCEPT ![p] =
                          [called |-> TRUE, op |-> "read", buf |-> << >>,
                           count |-> count]]
            /\ UNCHANGED << wr, rd >>
    /\ UNCHANGED << cbuf, write_append, live, heap, f_pos, writes_left,
                    appended, evicted, dev_lock >>
    /\ CallerFrame

\* a mutex_lock_interruptible that returns 0 without waiting for the lock
D_Lock_no_wait(p) ==
    /\ kpc[p] = "lock"
    /\ dev_lock' = p
    /\ kpc' = [kpc EXCEPT ![p] = "locked"]
    /\ UNCHANGED << cbuf, write_append, live, heap, f_pos, writes_left, wr,
                    rd, appended, evicted, call >>
    /\ CallerFrame

\* mutex_lock_interruptible(&dev->lock) returns 0: the lock was free and is
\* now the caller's
D_Lock(p) ==
    /\ kpc[p] = "lock"
    /\ dev_lock = NoCaller
    /\ dev_lock' = p
    /\ kpc' = [kpc EXCEPT ![p] = "locked"]
    /\ UNCHANGED << cbuf, write_append, live, heap, f_pos, writes_left, wr,
                    rd, appended, evicted, call >>
    /\ CallerFrame

\* an interrupted acquisition that goes to handle_errors all the same, and
\* so unlocks
D_LockInterrupted_unlocks(p) ==
    /\ kpc[p] = "lock"
    /\ kpc' = [kpc EXCEPT ![p] = "user"]
    /\ dev_lock' = NoCaller
    /\ IF call[p].op = "write"
       THEN /\ wr' = [called |-> TRUE, buf |-> call[p].buf,
                      ret |-> -ERESTARTSYS]
            /\ rd' = NoCall
       ELSE /\ ReadReturns(call[p].count, -ERESTARTSYS, 0, << >>)
            /\ wr' = NoCall
    /\ call' = [call EXCEPT ![p] = NoCall]
    /\ UNCHANGED << cbuf, write_append, live, heap, f_pos, writes_left,
                    appended, evicted >>
    /\ CallerFrame

\* mutex_lock_interruptible returns non-zero, a signal having arrived:
\* return -ERESTARTSYS (lines 91-95, 150-154)
D_LockInterrupted(p) ==
    /\ kpc[p] = "lock"
    /\ kpc' = [kpc EXCEPT ![p] = "user"]
    /\ IF call[p].op = "write"
       THEN /\ wr' = [called |-> TRUE, buf |-> call[p].buf,
                      ret |-> -ERESTARTSYS]
            /\ rd' = NoCall
       ELSE /\ ReadReturns(call[p].count, -ERESTARTSYS, 0, << >>)
            /\ wr' = NoCall
    /\ call' = [call EXCEPT ![p] = NoCall]
    /\ UNCHANGED << cbuf, write_append, live, heap, f_pos, writes_left,
                    appended, evicted, dev_lock >>
    /\ CallerFrame

\* the body of the call, from the lock to the label handle_errors, on
\* whichever of its paths
D_Body(p) ==
    /\ kpc[p] = "locked"
    /\ kpc' = [kpc EXCEPT ![p] = "handle_errors"]
    /\ IF call[p].op = "write"
       THEN /\ write_locked(call[p].buf)
            /\ rd' = NoCall
            /\ UNCHANGED f_pos
       ELSE /\ read_locked(call[p].count)
            /\ wr' = NoCall
            /\ UNCHANGED << cbuf, write_append, live, heap, appended,
                            evicted >>
    /\ UNCHANGED << writes_left, dev_lock, call >>
    /\ CallerFrame

\* handle_errors: mutex_unlock(&dev->lock); return retval
D_Unlock(p) ==
    /\ kpc[p] = "handle_errors"
    /\ dev_lock' = NoCaller
    /\ kpc' = [kpc EXCEPT ![p] = "user"]
    /\ call' = [call EXCEPT ![p] = NoCall]
    /\ UNCHANGED << cbuf, write_append, live, heap, f_pos, writes_left, wr,
                    rd, appended, evicted >>
    /\ CallerFrame

CallersNext ==
    \/ \E p \in Callers, buf \in WriteBufs : D_EnterWrite(p, buf)
    \/ \E p \in Callers, count \in 0..MaxCount : D_EnterRead(p, count)
    \/ \E p \in Callers : D_Lock(p)
    \/ \E p \in Callers : D_LockInterrupted(p)
    \/ \E p \in Callers : D_Body(p)
    \/ \E p \in Callers : D_Unlock(p)

DriverNext ==
    \/ \E buf \in WriteBufs : aesd_write(buf)
    \/ \E count \in 0..MaxCount : aesd_read(count)

vars == << svars, dvars >>

\* the server with one peer; the driver is not loaded
Init ==
    /\ ServerInit(1, MaxRecv, MaxTs, MaxEintr)
    /\ DriverStart(0)

Next == ServerNext

Spec == Init /\ [][Next]_vars

\* the driver loaded, written and read through one open file; the server
\* is not started
DriverInit ==
    /\ ServerInit(0, 0, 0, 0)
    /\ DriverStart(MaxWrites)

DriverSpec == DriverInit /\ [][DriverNext]_vars

\* recv() calls that deliver data to the connection of AssemblerSpec
MaxChunks == 2

\* what one recv() may deliver from a peer that sends arbitrary bytes
ByteChunks == { <<NUL>>, <<NL>>, <<NUL, NL>>, <<"a">>, <<"a", NL>> }

\* one connection_thread served alone: no signal, no timestamp record, no
\* interrupted system call; the peer sends arbitrary bytes
AssemblerInit ==
    /\ ServerInit(1, MaxChunks, 0, 0)
    /\ DriverStart(0)

W_RecvBytes(w) == \E recv_temp \in ByteChunks : W_RecvChunk(w, recv_temp)

AssemblerNext ==
    \/ \E w \in Workers : M_Accept(w)
    \/ \E w \in Workers : W_Outer(w)
    \/ \E w \in Workers : W_Inner(w)
    \/ \E w \in Workers : W_RecvBytes(w)
    \/ \E w \in Workers : W_RecvFail(w)
    \/ \E w \in Workers : W_LockOpen(w)
    \/ \E w \in Workers : W_Write(w)
    \/ \E w \in Workers : W_Echo(w)
    \/ \E w \in Workers : W_CloseUnlock(w)
    \/ \E w \in Workers : W_HandleErrors(w)

AssemblerSpec == AssemblerInit /\ [][AssemblerNext]_vars

\* lines each peer of TwoPeerSpec sends
MaxLines == 1

\* two peers, each sending whole lines of one character and closing its
\* connection when it likes; no signal, no timestamp record, no interrupted
\* system call
TwoPeerInit ==
    /\ ServerInit(2, MaxLines, 0, 0)
    /\ DriverStart(0)

\* recv() delivers one line of the peer
W_RecvLine(w) == W_RecvChunk(w, << Letter(w), NL >>)

TwoPeerNext ==
    \/ \E w \in Workers : M_Accept(w)
    \/ \E w \in Workers : W_Outer(w)
    \/ \E w \in Workers : W_Inner(w)
    \/ \E w \in Workers : W_RecvLine(w)
    \/ \E w \in Workers : W_RecvFail(w)
    \/ \E w \in Workers : W_LockOpen(w)
    \/ \E w \in Workers : W_Write(w)
    \/ \E w \in Workers : W_Echo(w)
    \/ \E w \in Workers : W_CloseUnlock(w)
    \/ \E w \in Workers : W_HandleErrors(w)

TwoPeerSpec == TwoPeerInit /\ [][TwoPeerNext]_vars

\* the steps a connection_thread takes by itself once it is scheduled; what
\* recv() returns, and when, is up to the peer and to the signals
WorkerStep(w) ==
    \/ W_Outer(w)
    \/ W_Inner(w)
    \/ W_LockOpen(w)
    \/ W_Write(w)
    \/ W_Echo(w)
    \/ W_CloseUnlock(w)
    \/ W_HandleErrors(w)

\* the steps of timestamp_thread: its sleep ends after 10 seconds
TimestampStep ==
    \/ T_Loop
    \/ T_LockOpen
    \/ T_Write
    \/ T_CloseUnlock
    \/ T_Sleep

\* the steps main takes by itself: poll() returns after 500 ms at the
\* latest, pthread_join returns when the thread has ended
MainStep ==
    \/ M_LoopExit
    \/ M_Join
    \/ M_JoinTs
    \/ M_Remove

\* the server with every thread scheduled again and again; peers and
\* signals do as they like
LiveSpec ==
    /\ Init
    /\ [][Next]_vars
    /\ \A w \in Workers : WF_vars(WorkerStep(w))
    /\ WF_vars(TimestampStep)
    /\ WF_vars(MainStep)

\* calls of aesd_write in CallersSpec
MaxCalls == 2

\* the driver loaded and called by two processes that share one open file;
\* the server is not started
CallersInit ==
    /\ ServerInit(0, 0, 0, 0)
    /\ DriverStart(MaxCalls)

CallersSpec == CallersInit /\ [][CallersNext]_vars

MaxLongRecv == 6

\* the most bytes one recv() delivers: recv_temp_size - 1
recv_max == 31

\* what one recv() may deliver from a peer that sends one long packet: a
\* full recv_temp or a single byte, no newline yet
LongChunks == { [i \in 1..recv_max |-> "a"], <<"b">> }

\* one connection_thread accumulating a packet longer than its buffer: no
\* signal, no timestamp record, no interrupted system call
GrowthInit ==
    /\ ServerInit(1, MaxLongRecv, 0, 0)
    /\ DriverStart(0)

W_RecvLong(w) == \E recv_temp \in LongChunks : W_RecvChunk(w, recv_temp)

GrowthNext ==
    \/ \E w \in Workers : M_Accept(w)
    \/ \E w \in Workers : W_Outer(w)
    \/ \E w \in Workers : W_Inner(w)
    \/ \E w \in Workers : W_RecvLong(w)

GrowthSpec == GrowthInit /\ [][GrowthNext]_vars

\* ------------------------------------------------------------------------
\* Claims about the socket server
\* ------------------------------------------------------------------------

\* the bytes of the entries of an append log, in the order of the log
RECURSIVE LogBytes(_)
LogBytes(log) ==
    IF log = << >> THEN << >> ELSE log[1].bytes \o LogBytes(Tail(log))

\* concatenation of the appends that completed
committed == LogBytes(applog)

IsSuffix(s, t) ==
    /\ Len(s) <= Len(t)
    /\ SubSeq(t, Len(t) - Len(s) + 1, Len(t)) = s

\* thread t's step calls write, lseek, read or close on tempfd (the steps
\* that open it take the lock first and are left out)
TouchesTempfd(t) ==
    IF t = TS
    THEN T_Write \/ T_CloseUnlock
    ELSE \/ W_Write(t)
         \/ (W_Echo(t) /\ ~global_abort)
         \/ W_CloseUnlock(t)
         \/ W_HandleErrors(t)

\* C1: every write, lseek, read and close of tempfd by a connection worker
\* or by the timestamp thread is made by the thread that holds file_lock.
C1_TempfdOnlyUnderLock ==
    [][ \A t \in Threads : TouchesTempfd(t) => file_lock = t ]_vars

\* C2: while no append is in progress (and no write to the medium has
\* failed, and the file has not been deleted at shutdown) the content of the
\* backing file is exactly the concatenation of the appends completed so
\* far, in the order of their completion under the lock.
C2_FileIsCommittedAppends ==
    ( /\ pc_main # "done"
      /\ ~io_error
      /\ \A t \in Threads : pc[t] \notin {"write", "ts_write"} )
    => file = committed

\* C3: a worker that has left its echo loop for close(tempfd) has sent its
\* peer the whole content of the backing file, which ends with the packet
\* the worker has just appended.
C3_EchoIsWholeFile ==
    \A w \in Workers :
        pc[w] = "close" => (echoed[w] = file /\ IsSuffix(recv_buf[w], file))

\* C4: a step of a worker that appends bytes to the backing file appends
\* from an accumulation in which a newline has been received.
C4_AppendOnlyCompletePacket ==
    [][ \A w \in Workers :
          (W_Write(w) /\ file' # file) => NL \in Range(recv_buf[w]) ]_vars

\* ------------------------------------------------------------------------
\* Claims about the character driver
\* ------------------------------------------------------------------------

\* the sizes of the entries before entry i
RECURSIVE CumulativeStart(_, _)
CumulativeStart(buffer, i) ==
    IF i <= 1 THEN 0
    ELSE CumulativeStart(buffer, i - 1) + buffer[i - 1].size

TotalBytes(buffer) == CumulativeStart(buffer, Len(buffer) + 1)

\* the bytes of entry e as memory shows them
Contents(e) == [i \in 1..e.size |-> ByteAt(e.buffptr, i, "?")]

\* the retained entries' bytes, oldest entry first
RECURSIVE Concat(_)
Concat(buffer) ==
    IF buffer = << >> THEN << >>
    ELSE Contents(Head(buffer)) \o Concat(Tail(buffer))

\* C5: a call of aesd_write that stores bytes adds an entry to the circular
\* buffer if and only if the data it was given holds a newline.
C5_CommitIffNewline ==
    [][ \A buf \in WriteBufs :
          (aesd_write(buf) /\ wr'.ret > 0)
          => ((appended' # appended) <=> NL \in Range(buf)) ]_vars

\* C6: the pending accumulation never refers to the buffer of a retained
\* entry, no buffer is retained as two entries, and the buffer of every
\* retained entry is still allocated.
C6_CommittedEntriesUntouched ==
    /\ \A i \in 1..Len(cbuf) : cbuf[i].buffptr # write_append.buffptr
    /\ \A i, j \in 1..Len(cbuf) :
         i # j => cbuf[i].buffptr # cbuf[j].buffptr
    /\ \A i \in 1..Len(cbuf) : cbuf[i].buffptr \in live

\* C7: when a call of aesd_write makes add_entry return the buffer of an
\* evicted entry, that buffer is no longer allocated when the call returns.
C7_EvictedBufferReleased ==
    [][ \A buf \in WriteBufs :
          (aesd_write(buf) /\ Len(evicted') > Len(evicted))
          => evicted'[Len(evicted')] \notin live' ]_vars

FirstPacket(s) ==
    IF NL \in Range(s)
    THEN SubSeq(s, 1, CHOOSE i \in 1..Len(s) :
                        /\ s[i] = NL
                        /\ \A j \in 1..(i - 1) : s[j] # NL)
    ELSE s

\* the appends of thread t that completed, in their order
RECURSIVE AppendsBy(_, _)
AppendsBy(t, log) ==
    IF log = << >> THEN << >>
    ELSE IF log[1].by = t THEN << log[1].bytes >> \o AppendsBy(t, Tail(log))
    ELSE AppendsBy(t, Tail(log))

\* C11: a packet is committed as the same byte string however recv() cut
\* it into chunks: with no chunk reaching beyond a newline and no abort, the
\* first append of a worker is the first packet of what its peer sent.
C11_ChunkingDoesNotMatter ==
    \A w \in Workers :
        (~global_abort /\ AppendsBy(w, applog) # << >>)
            => AppendsBy(w, applog)[1] = FirstPacket(received[w])


\* C12: bytes that follow the first newline of a chunk are not committed
\* with the packet that newline ends: every append of a worker ends at its
\* first newline.
C12_CommitEndsAtNewline ==
    \A i \in 1..Len(applog) :
        applog[i].by \in Workers
            => applog[i].bytes = FirstPacket(applog[i].bytes)


\* s is a row of whole lines of one character each
WholeLines(s) ==
    /\ Len(s) % 2 = 0
    /\ \A i \in 1..Len(s) :
         IF i % 2 = 1 THEN s[i] \in { Letter(w) : w \in Workers }
                      ELSE s[i] = NL

\* how many bytes of s are b
Count(b, s) == Cardinality({ i \in 1..Len(s) : s[i] = b })

\* C13: two workers whose peers each sent MaxLines lines of one character
\* and whose appends met no failure of the file: when both have ended, the
\* file is made of whole lines, MaxLines of each peer.
C13_TwoProducersWholeLines ==
    ( /\ \A w \in Workers : pc[w] = "done" /\ Len(received[w]) = 2 * MaxLines
      /\ ~io_error )
        => /\ WholeLines(file)
           /\ \A w \in Workers : Count(Letter(w), file) = MaxLines


IsPrefix(s, t) ==
    /\ Len(s) <= Len(t)
    /\ SubSeq(t, 1, Len(s)) = s

\* the bytes thread t appended, in the order of its appends
RECURSIVE AppendedBytes(_, _)
AppendedBytes(t, log) ==
    IF log = << >> THEN << >>
    ELSE (IF log[1].by = t THEN log[1].bytes ELSE << >>)
             \o AppendedBytes(t, Tail(log))

\* C14: the packets of one connection are committed in the order they were
\* received: what a worker has appended is, in the order of its appends, the
\* beginning of what its peer sent, and with one connection and no failure
\* of the file it is what the file holds.
C14_CommittedInOrderReceived ==
    \A w \in Workers :
        /\ IsPrefix(AppendedBytes(w, applog), received[w])
        /\ (pc[w] \notin {"idle", "write"} /\ ~io_error)
               => file = AppendedBytes(w, applog)

\* two different packets of one connection are in the file
C14_Witness ==
    \E w \in Workers :
        /\ Len(AppendsBy(w, applog)) = 2
        /\ AppendsBy(w, applog)[1] # AppendsBy(w, applog)[2]
        /\ pc[w] = "echo"
        /\ file = AppendedBytes(w, applog)
        /\ file = received[w]


\* C15: every worker that runs is in the queue main joins; main removes the
\* file only when the queue is empty and every worker and the timestamp
\* thread have ended, and once main has removed it the file does not come
\* back.
C15_RemoveAfterAllJoined ==
    /\ \A w \in Workers : pc[w] \notin {"idle", "done"} => w \in Range(head)
    /\ pc_main \in {"remove", "done"}
         => /\ head = << >>
            /\ \A t \in Threads : pc[t] \in {"idle", "done"}
    /\ pc_main = "done" => ~file_exists

\* main has removed a file that a worker and the timestamp thread had
\* appended to
C15_Witness ==
    /\ pc_main = "done"
    /\ ~file_exists
    /\ \E w \in Workers : pc[w] = "done" /\ AppendsBy(w, applog) # << >>
    /\ AppendsBy(TS, applog) # << >>


\* C16: once the abort flag is set, every worker and the timestamp thread
\* end, main joins them, removes the file and returns.
C16_AbortLeadsToExit ==
    global_abort ~> (pc_main = "done")


\* C17: a worker that ends its commit-and-echo step with the abort flag set
\* has completed the step all the same: when it closes the file, the file
\* ends with the packet it appended and the peer has been sent the whole
\* file.
C17_AbortDoesNotCutEcho ==
    [][ \A w \in Workers :
          (W_CloseUnlock(w) /\ global_abort)
              => (IsSuffix(recv_buf[w], file) /\ echoed[w] = file) ]_vars


\* C18: write_wrapper returns 0 only when it has written the len bytes of
\* its buffer, in order and each once: a turn of the echo loop that read a
\* chunk of the file and whose write_wrapper(peerfd, chunk, nread) returned
\* 0 has sent the peer that chunk and nothing else.
C18_WriteWrapperWritesAll ==
    [][ \A w \in Workers :
          (W_Echo(w) /\ tempfd'.pos > tempfd.pos /\ pc'[w] = "echo")
              => echoed'[w] =
                   echoed[w] \o SubSeq(file, tempfd.pos + 1, tempfd'.pos)
      ]_vars


\* C19: a failure in one connection worker leaves the other threads alone: a
\* thread that has opened the file under the lock and has not closed it yet
\* still has its descriptor open and still holds the lock.
C19_FailureStaysLocal ==
    \A t \in Threads :
        pc[t] \in {"write", "echo", "close", "ts_write", "ts_close"}
            => (tempfd.open /\ file_lock = t)


\* C20: when malloc fails for a newly accepted connection, main drops that
\* connection and goes on accepting; the process keeps running.
C20_MallocFailureDropsConnection ==
    [][ M_MallocFail => (pc_main' = "accept" /\ conn_left' = conn_left - 1)
      ]_vars


\* ------------------------------------------------------------------------
\* Claims about failures and locking of the driver and of the server
\* ------------------------------------------------------------------------

\* C21: a call of aesd_write that returns -EFAULT or -ENOMEM leaves what
\* the device stores as it was: the entries of the circular buffer and
\* their bytes, the size of the pending accumulation and its bytes.
C21_FailedWriteChangesNothing ==
    [][ ( (\E buf \in WriteBufs : aesd_write(buf))
          /\ wr'.ret \in {-EFAULT, -ENOMEM} )
            => /\ cbuf' = cbuf
               /\ Concat(cbuf)' = Concat(cbuf)
               /\ write_append'.size = write_append.size
               /\ Contents(write_append)' = Contents(write_append) ]_vars


\* the callers between mutex_lock_interruptible and mutex_unlock
InDriverSection == { p \in Callers : kpc[p] \in {"locked", "handle_errors"} }

\* C22: a caller reads or changes the ring and the pending accumulation
\* only between its acquisition and its release of the device lock: a
\* caller in that section holds the lock, it is alone there, and a caller
\* outside it (before the acquisition, after its return on any path) does
\* not hold the lock.
C22_DriverLockDiscipline ==
    /\ Cardinality(InDriverSection) <= 1
    /\ \A p \in Callers :
         IF p \in InDriverSection THEN dev_lock = p ELSE dev_lock # p
    /\ InDriverSection = {} => dev_lock = NoCaller

\* a write has failed for lack of memory and is about to unlock while the
\* other caller waits for the lock
C22_Witness ==
    \E p, q \in Callers :
        /\ kpc[p] = "handle_errors"
        /\ call[p].op = "write"
        /\ wr.called /\ wr.ret = -ENOMEM
        /\ kpc[q] = "lock"
        /\ dev_lock = p


\* what the call that returned last returned (0 before any call)
LastRet ==
    IF wr.called THEN wr.ret ELSE IF rd.called THEN rd.ret ELSE 0

\* C23: a caller whose acquisition of the device lock is interrupted
\* returns -ERESTARTSYS; the ring, the pending accumulation, the memory and
\* the file position are as before, and so is the lock, which the caller
\* neither holds nor releases.
C23_InterruptedLockChangesNothing ==
    [][ \A p \in Callers :
          (kpc[p] = "lock" /\ kpc'[p] = "user")
              => /\ LastRet' = -ERESTARTSYS
                 /\ dev_lock # p
                 /\ UNCHANGED << cbuf, write_append, live, heap, f_pos,
                                 dev_lock >> ]_vars

\* a caller has come back with -ERESTARTSYS while the other caller holds
\* the lock and the ring has an entry
C23_Witness ==
    \E q \in Callers :
        /\ LastRet = -ERESTARTSYS
        /\ dev_lock = q
        /\ kpc[q] = "locked"
        /\ cbuf # << >>


\* C24: the timestamp thread looks at the abort flag before it sleeps: it
\* does not go from its append into clock_nanosleep with the flag set.
C24_NoSleepAfterAbort ==
    [][ T_CloseUnlock => ~global_abort ]_vars


\* C25: a read of the backing file that fails with EINTR in the echo loop
\* is retried and nothing else: a turn of the loop that read no bytes of the
\* file sends the peer nothing and does not end the echo with an error,
\* unless the read itself failed for good.
C25_InterruptedReadSendsNothing ==
    [][ \A w \in Workers :
          ( /\ W_Echo(w)
            /\ ~global_abort
            /\ tempfd.open
            /\ tempfd'.pos = tempfd.pos
            /\ eintr_left' < eintr_left )
              => (echoed'[w] = echoed[w] /\ pc'[w] = "echo") ]_vars


\* thread t's step calls pthread_mutex_unlock(&file_lock)
UnlocksFileLock(t) ==
    IF t = TS
    THEN T_CloseUnlock \/ (T_Write /\ pc'[TS] = "done")
    ELSE W_CloseUnlock(t) \/ W_HandleErrors(t)

\* C26: a thread calls pthread_mutex_unlock on file_lock only while it is
\* the thread that holds it.
C26_UnlockOnlyByHolder ==
    [][ \A t \in Threads : UnlocksFileLock(t) => file_lock = t ]_vars


\* the positions of a thread between pthread_mutex_lock and its
\* pthread_mutex_unlock
HoldsFileLock(t) ==
    pc[t] \in {"write", "echo", "close", "handle_errors", "ts_write",
               "ts_close"}

\* C27: no thread ends, or is anywhere outside its critical section, while
\* it is the holder of file_lock: whatever path it took after acquiring the
\* lock, it has released it.
C27_NoExitHoldingLock ==
    \A t \in Threads : ~HoldsFileLock(t) => file_lock # t

\* a worker has ended through handle_errors after a failure met under the
\* lock, the lock is free and the timestamp thread is waiting for it
C27_Witness ==
    \E w \in Workers :
        /\ pc[w] = "done"
        /\ io_error
        /\ received[w] # << >>
        /\ file_lock = NoThread
        /\ pc[TS] = "ts_lock"


\* the bytes of the chunk that a step of worker w received
ChunkLen(w) == Len(received'[w]) - Len(received[w])

\* C28: in a connection worker, before each copy of a received chunk of r
\* bytes the receive buffer has room for the bytes accumulated so far plus
\* the r new ones
C28_RoomBeforeEachCopy ==
    [][ \A w \in Workers :
          (pc[w] = "recv" /\ ChunkLen(w) > 0)
             => recv_cap'[w] >= Len(recv_buf[w]) + ChunkLen(w) ]_vars

\* the growth rule alone: the size the worker takes its buffer to have is
\* never below the bytes accumulated, and a grown buffer is reached
GrowthArithmetic ==
    \A w \in Workers : Len(recv_buf[w]) <= recv_buf_size[w]

GrowthReached ==
    \E w \in Workers :
        /\ recv_buf_size[w] > size_step
        /\ recv_cap[w] = recv_buf_size[w]
        /\ Len(recv_buf[w]) > size_step

====
